---- MODULE Spec2Model ----
(***************************************************************************)
(* A model of github_checker.py: the URL parser (extract_repo_info), the   *)
(* prober (check_repo), the concurrent batch runner (check_repos_batch),   *)
(* the command line (main) and its summary loop.                           *)
(*                                                                         *)
(* Strings are sequences of one-character strings.  The literal substring  *)
(* "github.com" is one token, GH: no model string holds a part of it, and  *)
(* its last character, "m", is not in the strip set of line 36.            *)
(***************************************************************************)
EXTENDS Integers, Sequences, FiniteSets, Bags, TLC

VARIABLES
  purl,          \* parser harness: the URL handed to extract_repo_info
  pshape,        \* parser harness: how purl was built (owner, repo, suffix)
  pres,          \* parser harness: what extract_repo_info returned
  mainPc,        \* where main is: "start", "batch", "summary", "done", "exited"
  opened,        \* what open(filename) did: "ok" or the exception it raised
  exitCode,      \* the process exit code, -1 while the process runs
  msg,           \* the diagnostic the process ended with
  lines,         \* the lines of the input file, as read
  urls,          \* main's urls: the qualifying lines, stripped
  max_workers,   \* self.max_workers
  mocked,        \* TRUE when the HTTP layer is mocked: a repository's first
                 \* response is its response for good
  mock,          \* the responses fixed so far, by (owner, repo)
  run,           \* 1 for the first run over urls, 2 for the re-run
  prev,          \* the outcome of the first run, kept for the re-run
  batchPc,       \* where check_repos_batch is
  queue,         \* the executor's work queue: submitted, not yet started
  fut,           \* per URL index: "new", "queued", "running", "finished"
  started,       \* per URL index: how many times check_repo was started
  outcome,       \* per URL index: what check_repo did (result or exception)
  answer,        \* per URL index: what the GET got, NoAnswer without a GET
  finOrder,      \* indices in the order their futures finished
  snapshot,      \* the futures already finished when as_completed began
  reaped,        \* the futures as_completed has yielded
  results,       \* check_repos_batch's results list
  cbLog,         \* the arguments of each progress_callback call, in order
  status_counts, \* main's status_counts
  dead_links     \* main's dead_links

pvars == <<purl, pshape, pres>>
cliVars == <<mainPc, opened, exitCode, msg, lines, urls, max_workers>>
runVars == <<mocked, mock, run, prev>>
poolVars == <<queue, fut, started, outcome, answer, finOrder>>
reapVars == <<batchPc, snapshot, reaped, results, cbLog>>
sumVars == <<status_counts, dead_links>>
vars == <<pvars, cliVars, runVars, poolVars, reapVars, sumVars>>

----------------------------------------------------------------------------
(* Bounds *)

MaxNameLen == 3      \* longest owner or repository name of a built URL
MaxUrlLen == 3       \* longest free-form string handed to the parser
MaxLines == 2        \* most lines of an input file
MaxWorkers == 2      \* largest worker pool

----------------------------------------------------------------------------
(* Strings *)

GH == "github.com"
NameChar == {"a", "g", "i", "t", "."}
Char == NameChar \cup {GH, "/"}
DotGit == <<".", "g", "i", "t">>

RECURSIVE StringsUpTo(_, _)
StringsUpTo(alphabet, n) ==
  IF n = 0 THEN {<<>>}
  ELSE LET shorter == StringsUpTo(alphabet, n - 1)
       IN  shorter \cup {Append(s, c) : s \in shorter, c \in alphabet}

\* s[a..b], empty when a > b
Slice(s, a, b) == [k \in 1..(b - a + 1) |-> s[a + k - 1]]

StartsWithAt(s, p, t) ==
  /\ p + Len(t) - 1 <= Len(s)
  /\ \A k \in 1..Len(t) : s[p + k - 1] = t[k]

EndsWith(s, t) == Len(t) <= Len(s) /\ StartsWithAt(s, Len(s) - Len(t) + 1, t)

NoSlash(s) == \A k \in 1..Len(s) : s[k] # "/"

\* str.rstrip(chars): drop every trailing character that is in the set chars
RECURSIVE rstrip(_, _)
rstrip(s, chars) ==
  IF Len(s) > 0 /\ s[Len(s)] \in chars
  THEN rstrip(Slice(s, 1, Len(s) - 1), chars)
  ELSE s

\* line 36: repo.rstrip('.git'), the argument being a set of characters
repo_cleanup(repo) == rstrip(repo, {".", "g", "i", "t"})

----------------------------------------------------------------------------
(* extract_repo_info, lines 23-38 *)

NoMatch == [matched |-> FALSE, owner |-> <<>>, repo |-> <<>>]
Groups(o, r) == [matched |-> TRUE, owner |-> o, repo |-> r]

\* the first index from p on at which s holds c, 0 when there is none
RECURSIVE IndexOf(_, _, _)
IndexOf(s, c, p) ==
  IF p > Len(s) THEN 0
  ELSE IF s[p] = c THEN p
  ELSE IndexOf(s, c, p + 1)

\* The end of the owner group when 'github\.com/([^/]+)/' matches at p, else 0.
\* [^/]+ is followed by a literal '/', so the group is the whole run up to
\* the next '/', and it is not empty.
OwnerEnd(url, p) ==
  IF ~StartsWithAt(url, p, <<GH, "/">>) THEN 0
  ELSE LET e == IndexOf(url, "/", p + 2)
       IN  IF e \in {0, p + 2} THEN 0 ELSE e - 1

\* the tails '(?:\.git)?/?$' accepts
Pattern1Tails == {<<>>, DotGit, <<"/">>, DotGit \o <<"/">>}

\* '([^/]+?)(?:\.git)?/?$' from position rs: the lazy group grows from length
\* n one character at a time until the remainder is an accepted tail; the
\* length it stops at, 0 when it meets a '/' or the end first.
RECURSIVE LazyRepoLen(_, _, _)
LazyRepoLen(url, rs, n) ==
  IF rs + n - 1 > Len(url) \/ url[rs + n - 1] = "/" THEN 0
  ELSE IF Slice(url, rs + n, Len(url)) \in Pattern1Tails THEN n
  ELSE LazyRepoLen(url, rs, n + 1)

\* r'github\.com/([^/]+)/([^/]+?)(?:\.git)?/?$' tried at position p
Pattern1At(url, p) ==
  LET oe == OwnerEnd(url, p)
      n == LazyRepoLen(url, oe + 2, 1)
  IN  IF oe = 0 THEN NoMatch
      ELSE IF n = 0 THEN NoMatch
      ELSE Groups(Slice(url, p + 2, oe), Slice(url, oe + 2, oe + 1 + n))

\* the end of the run of characters other than '/' that starts at rs
RunEnd(url, rs) ==
  LET e == IndexOf(url, "/", rs) IN IF e = 0 THEN Len(url) ELSE e - 1

\* r'github\.com/([^/]+)/([^/]+)' tried at position p: the greedy group takes
\* the whole run up to the next '/' or the end.
Pattern2At(url, p) ==
  LET oe == OwnerEnd(url, p)
      re == RunEnd(url, oe + 2)
  IN  IF oe = 0 THEN NoMatch
      ELSE IF re < oe + 2 THEN NoMatch
      ELSE Groups(Slice(url, p + 2, oe), Slice(url, oe + 2, re))

PatternAt(k, url, p) == IF k = 1 THEN Pattern1At(url, p) ELSE Pattern2At(url, p)

\* re.search(pattern, url): the match at the leftmost position that has one
RECURSIVE SearchFrom(_, _, _)
SearchFrom(k, url, p) ==
  IF p > Len(url) THEN NoMatch
  ELSE LET m == PatternAt(k, url, p)
       IN  IF m.matched THEN m ELSE SearchFrom(k, url, p + 1)

re_search(k, url) == SearchFrom(k, url, 1)

\* lines 31-38: the first pattern that matches gives the groups
first_match(url) ==
  LET m1 == re_search(1, url)
  IN  IF m1.matched THEN m1 ELSE re_search(2, url)

extract_repo_info(url) ==
  LET m == first_match(url)
  IN  IF m.matched THEN Groups(m.owner, repo_cleanup(m.repo)) ELSE NoMatch

----------------------------------------------------------------------------
(* main's input, lines 118-136 *)

IsSpace(c) == c = " "

RECURSIVE lstrip(_)
lstrip(s) == IF Len(s) > 0 /\ IsSpace(s[1]) THEN lstrip(Tail(s)) ELSE s

\* str.strip()
strip(s) == rstrip(lstrip(s), {" "})

Contains(s, t) == \E p \in 1..Len(s) : StartsWithAt(s, p, t)

\* line 129: line.strip() and 'github.com' in line
qualifies(line) == strip(line) # <<>> /\ Contains(line, <<GH>>)

\* line 129: [line.strip() for line in f if ...]
RECURSIVE read_urls(_)
read_urls(ls) ==
  IF ls = <<>> THEN <<>>
  ELSE IF qualifies(Head(ls))
       THEN <<strip(Head(ls))>> \o read_urls(Tail(ls))
       ELSE read_urls(Tail(ls))

\* The lines an input file is made of: blank, without github.com, two
\* repositories (one padded, one with '.git'), github.com alone, and a
\* repository named 'git'.
LineSet ==
  { <<" ">>,
    <<"a">>,
    <<" ", GH, "/", "a", "/", "a", " ">>,
    <<GH, "/", "t", "/", "a", ".", "g", "i", "t">>,
    <<GH>>,
    <<GH, "/", "a", "/", "g", "i", "t">> }

RECURSIVE FilesUpTo(_)
FilesUpTo(n) ==
  IF n = 0 THEN {<<>>}
  ELSE LET shorter == FilesUpTo(n - 1)
       IN  shorter \cup {Append(f, l) : f \in shorter, l \in LineSet}

Files == FilesUpTo(MaxLines)

----------------------------------------------------------------------------
(* check_repo, lines 40-90 *)

\* What the GET of line 54 can do: a response with a status code and a body
\* (a JSON object, or JSON of another type such as an array), or a
\* requests.exceptions.RequestException.
Response(code, body) == [kind |-> "response", code |-> code, body |-> body]
NetworkFailure == [kind |-> "exception", code |-> 0, body |-> "none"]
NoAnswer == [kind |-> "none", code |-> 0, body |-> "none"]
Responses ==
  {Response(200, "object"), Response(200, "array"), Response(404, "object"),
   Response(403, "object"), Response(500, "object"), NetworkFailure}

StatusKind == {"INVALID_URL", "EXISTS", "NOT_FOUND", "FORBIDDEN", "ERROR"}

Result(url, status, message) ==
  [url |-> url, status |-> status, message |-> message]
NoResult == Result(<<>>, "none", "none")

\* check_repo ends by returning a result or by raising; requests counts the
\* GETs it issued.
Returned(result, requests) ==
  [raised |-> FALSE, result |-> result, requests |-> requests]
Raised(requests) == [raised |-> TRUE, result |-> NoResult, requests |-> requests]
NotRun == [raised |-> FALSE, result |-> NoResult, requests |-> 0]

\* the mutant of parse_failed that tests the owner alone
parse_failed_owner_only(info) == ~info.matched \/ info.owner = <<>>

\* line 44: not owner or not repo (None and '' are both false)
parse_failed(info) == ~info.matched \/ info.owner = <<>> \/ info.repo = <<>>

\* lines 56-83 and 85-90: the result for a response or a RequestException.
\* On 200 the body is read with repo_data.get: a body that is not a JSON
\* object has no get, and the AttributeError is not a RequestException.
classify(url, resp) ==
  IF resp.kind = "exception" THEN Returned(Result(url, "ERROR", "Network error"), 1)
  ELSE IF resp.code = 200
       THEN IF resp.body = "object"
            THEN Returned(Result(url, "EXISTS", "ok"), 1)
            ELSE Raised(1)
  ELSE IF resp.code = 404
       THEN Returned(Result(url, "NOT_FOUND", "Repository not found"), 1)
  ELSE IF resp.code = 403
       THEN Returned(Result(url, "FORBIDDEN",
                            "Access denied (private or rate limited)"), 1)
  ELSE Returned(Result(url, "ERROR", "HTTP status"), 1)

\* line 42, owner, repo = self.extract_repo_info(url), for every URL a file
\* can give: the parser's value at each, computed once
FileUrls == {strip(l) : l \in LineSet}
parsed == [u \in FileUrls |-> extract_repo_info(u)]

check_repo(url, resp) ==
  IF parse_failed(parsed[url])
  THEN Returned(Result(url, "INVALID_URL", "Could not parse GitHub URL"), 0)
  ELSE classify(url, resp)

\* line 51: the repository a URL's request is about, /repos/{owner}/{repo}
api_url(url) == <<parsed[url].owner, parsed[url].repo>>

----------------------------------------------------------------------------
(* main's summary, lines 148-156 *)

\* the mutant of is_dead that also lists FORBIDDEN
is_dead_with_forbidden(status) == status \in {"NOT_FOUND", "ERROR", "FORBIDDEN"}

\* line 155: status in ['NOT_FOUND', 'ERROR']
is_dead(status) == status \in {"NOT_FOUND", "ERROR"}

\* lines 152-153: status_counts[status] = status_counts.get(status, 0) + 1
count_status(counts, status) ==
  IF status \in DOMAIN counts
  THEN [counts EXCEPT ![status] = @ + 1]
  ELSE counts @@ (status :> 1)

\* lines 151-156: the loop over results, from the accumulators acc
RECURSIVE summarise(_, _)
summarise(rs, acc) ==
  IF rs = <<>> THEN acc
  ELSE LET r == Head(rs)
       IN  summarise(Tail(rs),
             [status_counts |-> count_status(acc.status_counts, r.status),
              dead_links |-> IF is_dead(r.status)
                             THEN Append(acc.dead_links, r.url)
                             ELSE acc.dead_links])

EmptyCounts == [s \in {} |-> 0]
EmptySummary == [status_counts |-> EmptyCounts, dead_links |-> <<>>]

----------------------------------------------------------------------------
(* State *)

K == Len(urls)
Idx == 1..K
Running == {i \in Idx : fut[i] = "running"}
Finished == {i \in Idx : fut[i] = "finished"}
NoPrev == [kind |-> "none", status_counts |-> EmptyCounts, dead_links |-> <<>>]
NoMock == [r \in {} |-> NetworkFailure]

ParserIdle == purl = <<>> /\ pshape = [built |-> FALSE, owner |-> <<>>,
                                        repo |-> <<>>, suffix |-> <<>>]
                          /\ pres = [called |-> FALSE, matched |-> FALSE,
                                     owner |-> <<>>, repo |-> <<>>]

\* the batch state before check_repos_batch is called on n URLs
BatchReset(n) ==
  /\ batchPc = "idle"
  /\ queue = <<>>
  /\ fut = [i \in 1..n |-> "new"]
  /\ started = [i \in 1..n |-> 0]
  /\ outcome = [i \in 1..n |-> NotRun]
  /\ answer = [i \in 1..n |-> NoAnswer]
  /\ finOrder = <<>>
  /\ snapshot = {}
  /\ reaped = {}
  /\ results = <<>>
  /\ cbLog = <<>>
  /\ status_counts = EmptyCounts
  /\ dead_links = <<>>

ProcessStart ==
  /\ mainPc = "start"
  /\ opened = "no"
  /\ exitCode = -1
  /\ msg = "none"
  /\ lines = <<>>
  /\ urls = <<>>
  /\ run = 1
  /\ prev = NoPrev
  /\ BatchReset(0)

\* The pool size is the constructor's max_workers (line 17).  main leaves it
\* at the default of line 15, 10; here it ranges over 1..MaxWorkers so that
\* batches of a few URLs fill the pool.
Init ==
  /\ ParserIdle
  /\ ProcessStart
  /\ max_workers \in 1..MaxWorkers
  /\ mocked = FALSE
  /\ mock = NoMock

----------------------------------------------------------------------------
(* main up to the batch, lines 117-141 *)

exit(code, message) ==
  /\ mainPc' = "exited"
  /\ exitCode' = code
  /\ msg' = message

\* lines 118-122: no file argument
Usage ==
  /\ mainPc = "start"
  /\ exit(1, "usage")
  /\ UNCHANGED <<opened, lines, urls, max_workers>>
  /\ UNCHANGED <<pvars, runVars, poolVars, reapVars, sumVars>>

\* lines 127-132: open raises FileNotFoundError, which main catches
OpenNotFound ==
  /\ mainPc = "start"
  /\ opened' = "FileNotFoundError"
  /\ exit(1, "file_error")
  /\ UNCHANGED <<lines, urls, max_workers>>
  /\ UNCHANGED <<pvars, runVars, poolVars, reapVars, sumVars>>

\* lines 127-130: open raises another OSError (PermissionError,
\* IsADirectoryError): no except clause matches, the interpreter prints the
\* traceback and ends the process with code 1
OpenOtherError ==
  /\ mainPc = "start"
  /\ opened' = "PermissionError"
  /\ exit(1, "traceback")
  /\ UNCHANGED <<lines, urls, max_workers>>
  /\ UNCHANGED <<pvars, runVars, poolVars, reapVars, sumVars>>

\* lines 127-141: the file is read; without URLs the process exits, otherwise
\* check_repos_batch is called (line 94: results = [])
ReadFile ==
  /\ mainPc = "start"
  /\ \E f \in Files :
       /\ opened' = "ok"
       /\ lines' = f
       /\ urls' = read_urls(f)
       /\ IF urls' = <<>>
          THEN /\ exit(1, "no_urls")
               /\ UNCHANGED <<poolVars, reapVars>>
          ELSE /\ mainPc' = "batch"
               /\ UNCHANGED <<exitCode, msg>>
               /\ batchPc' = "submitting"
               /\ queue' = <<>>
               /\ fut' = [i \in 1..Len(urls') |-> "new"]
               /\ started' = [i \in 1..Len(urls') |-> 0]
               /\ outcome' = [i \in 1..Len(urls') |-> NotRun]
               /\ answer' = [i \in 1..Len(urls') |-> NoAnswer]
               /\ finOrder' = <<>>
               /\ UNCHANGED <<snapshot, reaped, results, cbLog>>
  /\ UNCHANGED <<max_workers, pvars, runVars, sumVars>>

----------------------------------------------------------------------------
(* check_repos_batch, lines 92-111 *)

\* line 98: executor.submit(self.check_repo, url) for the next url
Submit ==
  /\ batchPc = "submitting"
  /\ \E i \in Idx :
       /\ fut[i] = "new"
       /\ \A j \in 1..(i - 1) : fut[j] # "new"
       /\ fut' = [fut EXCEPT ![i] = "queued"]
       /\ queue' = Append(queue, i)
  /\ UNCHANGED <<started, outcome, answer, finOrder>>
  /\ UNCHANGED <<pvars, cliVars, runVars, reapVars, sumVars>>

\* the mutant of pool_has_free_worker: a pool without a limit
pool_unbounded == TRUE

\* line 96: ThreadPoolExecutor(max_workers=self.max_workers) has at most
\* max_workers threads, each running one work item at a time
pool_has_free_worker == Cardinality(Running) < max_workers

\* a pool thread takes the oldest work item and calls check_repo
WorkerStart ==
  /\ queue # <<>>
  /\ pool_has_free_worker
  /\ fut' = [fut EXCEPT ![Head(queue)] = "running"]
  /\ started' = [started EXCEPT ![Head(queue)] = @ + 1]
  /\ queue' = Tail(queue)
  /\ UNCHANGED <<outcome, answer, finOrder>>
  /\ UNCHANGED <<pvars, cliVars, runVars, reapVars, sumVars>>

\* the response to the GET for url: the fixed one when the repository has
\* one, any response otherwise
Answers(url) ==
  IF api_url(url) \in DOMAIN mock THEN {mock[api_url(url)]} ELSE Responses

\* check_repo runs to its end in a pool thread and the future is resolved
CheckRepo(i) ==
  /\ fut[i] = "running"
  /\ \E resp \in Answers(urls[i]) :
       LET out == check_repo(urls[i], resp)
       IN  /\ outcome' = [outcome EXCEPT ![i] = out]
           /\ answer' = [answer EXCEPT
                           ![i] = IF out.requests > 0 THEN resp ELSE NoAnswer]
           /\ mock' = IF mocked /\ out.requests > 0
                            /\ api_url(urls[i]) \notin DOMAIN mock
                      THEN mock @@ (api_url(urls[i]) :> resp)
                      ELSE mock
  /\ fut' = [fut EXCEPT ![i] = "finished"]
  /\ finOrder' = Append(finOrder, i)
  /\ UNCHANGED <<queue, started>>
  /\ UNCHANGED <<mocked, run, prev>>
  /\ UNCHANGED <<pvars, cliVars, reapVars, sumVars>>

\* line 101: as_completed(future_to_url) starts once every URL is submitted;
\* it notes the futures that are already finished
AsCompleted ==
  /\ batchPc = "submitting"
  /\ \A i \in Idx : fut[i] # "new"
  /\ batchPc' = "reaping"
  /\ snapshot' = Finished
  /\ UNCHANGED <<reaped, results, cbLog>>
  /\ UNCHANGED <<pvars, cliVars, runVars, poolVars, sumVars>>

\* The futures as_completed may yield next: those of the snapshot in any
\* order (a set), then the others in the order they finish.
Yieldable ==
  IF snapshot \ reaped # {} THEN snapshot \ reaped
  ELSE LET later == SelectSeq(finOrder, LAMBDA i : i \notin reaped)
       IN  IF later = <<>> THEN {} ELSE {Head(later)}

\* lines 101-109: one turn of the loop for a future whose check_repo returned
Reap(i) ==
  /\ batchPc = "reaping"
  /\ i \in Yieldable
  /\ ~outcome[i].raised
  /\ reaped' = reaped \cup {i}
  /\ results' = Append(results, outcome[i].result)
  /\ cbLog' = Append(cbLog, [completed |-> Cardinality(reaped) + 1,
                             total |-> Len(urls),
                             result |-> outcome[i].result])
  /\ UNCHANGED <<batchPc, snapshot>>
  /\ UNCHANGED <<pvars, cliVars, runVars, poolVars, sumVars>>

\* line 102: future.result() re-raises what check_repo raised; the loop is
\* left and the with block waits for the pool (shutdown(wait=True))
ReapRaises(i) ==
  /\ batchPc = "reaping"
  /\ i \in Yieldable
  /\ outcome[i].raised
  /\ reaped' = reaped \cup {i}
  /\ batchPc' = "unwinding"
  /\ UNCHANGED <<snapshot, results, cbLog>>
  /\ UNCHANGED <<pvars, cliVars, runVars, poolVars, sumVars>>

\* the mutant of all_yielded: a loop over the futures already finished
\* when it began
snapshot_yielded == snapshot \subseteq reaped

\* line 101: as_completed is exhausted once it has yielded every future
all_yielded == reaped = Idx

\* line 111: every future was yielded, the pool is idle: return results
BatchReturn ==
  /\ batchPc = "reaping"
  /\ all_yielded
  /\ batchPc' = "returned"
  /\ mainPc' = "summary"
  /\ UNCHANGED <<opened, exitCode, msg, lines, urls, max_workers>>
  /\ UNCHANGED <<snapshot, reaped, results, cbLog>>
  /\ UNCHANGED <<pvars, runVars, poolVars, sumVars>>

\* the exception leaves check_repos_batch once every work item has run, and
\* main, which catches nothing here, ends with a traceback and code 1
BatchRaise ==
  /\ batchPc = "unwinding"
  /\ Finished = Idx
  /\ batchPc' = "raised"
  /\ exit(1, "traceback")
  /\ UNCHANGED <<opened, lines, urls, max_workers>>
  /\ UNCHANGED <<snapshot, reaped, results, cbLog>>
  /\ UNCHANGED <<pvars, runVars, poolVars, sumVars>>

\* lines 143-164: the summary of the returned results
Summary ==
  /\ mainPc = "summary"
  /\ LET s == summarise(results, EmptySummary)
     IN  /\ status_counts' = s.status_counts
         /\ dead_links' = s.dead_links
  /\ mainPc' = "done"
  /\ exitCode' = 0
  /\ UNCHANGED <<opened, msg, lines, urls, max_workers>>
  /\ UNCHANGED <<pvars, runVars, poolVars, reapVars>>

Next ==
  \/ Usage
  \/ OpenNotFound
  \/ OpenOtherError
  \/ ReadFile
  \/ Submit
  \/ WorkerStart
  \/ \E i \in Idx : CheckRepo(i)
  \/ AsCompleted
  \/ \E i \in Idx : Reap(i)
  \/ \E i \in Idx : ReapRaises(i)
  \/ BatchReturn
  \/ BatchRaise
  \/ Summary

Spec == Init /\ [][Next]_vars

\* Threads are scheduled, and every GET ends within its timeout (line 54):
\* a step that can be taken is taken.
FairSpec == Spec /\ WF_vars(Next)

----------------------------------------------------------------------------
(* Two runs over the same input with fixed responses *)

RerunInit ==
  /\ ParserIdle
  /\ ProcessStart
  /\ max_workers \in 1..MaxWorkers
  /\ mocked = TRUE
  /\ mock = NoMock

\* The program is run again on the same file: main reads the same urls and
\* calls check_repos_batch on them (lines 117-141).  What the first run
\* ended with is kept.
Rerun ==
  /\ run = 1
  /\ mainPc = "done" \/ batchPc = "raised"
  /\ run' = 2
  /\ prev' = [kind |-> IF mainPc = "done" THEN "report" ELSE "traceback",
              status_counts |-> status_counts,
              dead_links |-> dead_links]
  /\ mainPc' = "batch"
  /\ exitCode' = -1
  /\ msg' = "none"
  /\ batchPc' = "submitting"
  /\ queue' = <<>>
  /\ fut' = [i \in Idx |-> "new"]
  /\ started' = [i \in Idx |-> 0]
  /\ outcome' = [i \in Idx |-> NotRun]
  /\ answer' = [i \in Idx |-> NoAnswer]
  /\ finOrder' = <<>>
  /\ snapshot' = {}
  /\ reaped' = {}
  /\ results' = <<>>
  /\ cbLog' = <<>>
  /\ status_counts' = EmptyCounts
  /\ dead_links' = <<>>
  /\ UNCHANGED <<opened, lines, urls, max_workers, mocked, mock, pvars>>

RerunNext == Next \/ Rerun

RerunSpec == RerunInit /\ [][RerunNext]_vars

----------------------------------------------------------------------------
(* The parser on its own: one URL in, one (owner, repo) out *)

Names == StringsUpTo(NameChar, MaxNameLen) \ {<<>>}
Suffixes == {<<>>, DotGit, <<"/">>, DotGit \o <<"/">>, <<"/", "a">>}
Prefixes == {<<>>, <<"a", "/", "/">>}

ParserInit ==
  /\ ProcessStart
  /\ max_workers = 1
  /\ mocked = FALSE
  /\ mock = NoMock
  /\ pres = [called |-> FALSE, matched |-> FALSE, owner |-> <<>>, repo |-> <<>>]
  /\ \/ \E pre \in Prefixes, o \in Names, r \in Names, s \in Suffixes :
          /\ purl = pre \o <<GH, "/">> \o o \o <<"/">> \o r \o s
          /\ pshape = [built |-> TRUE, owner |-> o, repo |-> r, suffix |-> s]
     \/ /\ purl \in StringsUpTo(Char, MaxUrlLen)
        /\ pshape = [built |-> FALSE, owner |-> <<>>, repo |-> <<>>,
                     suffix |-> <<>>]

Parse ==
  /\ ~pres.called
  /\ LET m == extract_repo_info(purl)
     IN  pres' = [called |-> TRUE, matched |-> m.matched,
                  owner |-> m.owner, repo |-> m.repo]
  /\ UNCHANGED <<purl, pshape>>
  /\ UNCHANGED <<cliVars, runVars, poolVars, reapVars, sumVars>>

ParserNext == Parse

ParserSpec == ParserInit /\ [][ParserNext]_vars

----------------------------------------------------------------------------
(* Claims *)

BatchEnded == batchPc \in {"returned", "raised"}
Range(q) == {q[k] : k \in DOMAIN q}
BagOfSeq(q) == [x \in Range(q) |-> Cardinality({k \in DOMAIN q : q[k] = x})]

\* C1: a batch of K URLs (duplicates allowed), under every interleaving, ends
\* by returning exactly K results, with exactly K progress callbacks whose
\* completed_count runs 1..K in increasing order and whose total_count is K.
C1_OneResultPerUrl ==
  BatchEnded =>
    /\ batchPc = "returned"
    /\ Len(results) = K
    /\ Len(cbLog) = K
    /\ \A k \in 1..Len(cbLog) : cbLog[k].completed = k /\ cbLog[k].total = K

\* what C2 calls a failure inside a probe
C2_IsFailure(a) ==
  \/ a.kind = "exception"
  \/ a.kind = "response" /\ a.code \notin {200, 403, 404}
  \/ a.kind = "response" /\ a.body # "object"

\* C2: whatever goes wrong in one check_repo call (transport failure,
\* unexpected status, unusable body) becomes a result with status ERROR, and
\* check_repos_batch does not raise.
C2_FailuresCaptured ==
  /\ batchPc \notin {"unwinding", "raised"}
  /\ \A i \in Finished :
       C2_IsFailure(answer[i]) =>
         ~outcome[i].raised /\ outcome[i].result.status = "ERROR"

\* C3: at most max_workers check_repo calls run at the same time, whatever
\* the number of URLs, and every URL is started at most once, and exactly once
\* by the end of the batch.
C3_BoundedPool ==
  /\ Cardinality(Running) <= max_workers
  /\ \A i \in Idx : started[i] <= 1
  /\ \A i \in Idx : (started[i] = 1) = (fut[i] \in {"running", "finished"})
  /\ BatchEnded => \A i \in Idx : started[i] = 1

\* the pool is full and a URL waits in the queue
C3_PoolFullWithBacklog ==
  /\ Cardinality(Running) = max_workers
  /\ queue # <<>>
  /\ K > max_workers

\* The URLs C4 is about: github.com/<owner>/<repo> followed by nothing, by
\* '.git' or by '/'.  The repo is the name before the optional '.git', so it
\* does not itself end in '.git'.
C4_Shape ==
  /\ pshape.built
  /\ pshape.suffix \in {<<>>, DotGit, <<"/">>}
  /\ ~EndsWith(pshape.repo, DotGit)

\* C4: for github.com/<owner>/<repo> followed by nothing, '.git' or '/', with
\* owner and repo not empty and free of '/', extract_repo_info returns exactly
\* (owner, repo): the repo name comes back character for character.
C4_ExactPair ==
  (pres.called /\ C4_Shape) =>
     /\ pres.matched
     /\ pres.owner = pshape.owner
     /\ pres.repo = pshape.repo

\* C5 as claimed: with the URL list and each repository's response fixed, the
\* second run ends with the report of the first: the same counts and the same
\* dead-link list, element for element.
C5_SameReport ==
  (run = 2 /\ mainPc = "done") =>
    /\ prev.kind = "report"
    /\ status_counts = prev.status_counts
    /\ dead_links = prev.dead_links

\* C5 as amended: with the URL list and each repository's response fixed, the
\* two runs end the same way, both with a traceback or both with a report,
\* and the two reports have the same counts and the same dead links with the
\* same multiplicities; the order of the dead links may differ.
C5_SameReportUpToOrder ==
  /\ (run = 2 /\ mainPc = "done") =>
       /\ prev.kind = "report"
       /\ status_counts = prev.status_counts
       /\ BagOfSeq(dead_links) = BagOfSeq(prev.dead_links)
  /\ (run = 2 /\ batchPc = "raised") => prev.kind = "traceback"

\* the two runs list the same dead links in different orders
C5_ReportsInDifferentOrder ==
  /\ run = 2
  /\ mainPc = "done"
  /\ Len(dead_links) >= 2
  /\ dead_links # prev.dead_links

\* parsing yields an owner and a repo name
C6_HasOwnerAndRepo(url) ==
  LET info == extract_repo_info(url)
  IN  info.matched /\ Len(info.owner) > 0 /\ Len(info.repo) > 0

\* the requests of the probes 1..k
RECURSIVE C6_Requests(_)
C6_Requests(k) == IF k = 0 THEN 0 ELSE outcome[k].requests + C6_Requests(k - 1)

\* C6: check_repo issues a request if and only if parsing yields an owner and
\* a repo name; without them the result is INVALID_URL and there is no
\* request, with them there is exactly one request; over an ended batch the
\* number of requests is the number of URLs whose status is not INVALID_URL.
C6_RequestIffParsed ==
  /\ \A i \in Finished :
       /\ outcome[i].requests = (IF C6_HasOwnerAndRepo(urls[i]) THEN 1 ELSE 0)
       /\ (outcome[i].result.status = "INVALID_URL")
            = ~C6_HasOwnerAndRepo(urls[i])
       /\ (answer[i] = NoAnswer) = (outcome[i].requests = 0)
  /\ \A i \in Idx \ Finished : outcome[i].requests = 0
  /\ BatchEnded =>
       C6_Requests(K) =
         K - Cardinality({i \in Idx : outcome[i].result.status = "INVALID_URL"})

\* an ended batch with a URL that matched a pattern and still had no request
\* (its repo name was stripped to nothing) and a URL with one request
C6_MixedBatch ==
  /\ BatchEnded
  /\ \E i, j \in Idx :
       /\ outcome[i].requests = 0
       /\ extract_repo_info(urls[i]).matched
       /\ outcome[j].requests = 1

\* the status C7 gives for what the GET got
C7_StatusFor(a) ==
  IF a.kind = "exception" THEN "ERROR"
  ELSE IF a.code = 200 THEN "EXISTS"
  ELSE IF a.code = 404 THEN "NOT_FOUND"
  ELSE IF a.code = 403 THEN "FORBIDDEN"
  ELSE "ERROR"

\* C7: for a parseable URL the status is a total function of what the GET
\* got: 200 gives EXISTS, 404 NOT_FOUND, 403 FORBIDDEN, any other code ERROR,
\* a network failure ERROR; and every status is one of the five.
C7_StatusIsTotal ==
  \A i \in Finished :
    /\ ~outcome[i].raised
    /\ outcome[i].result.status \in StatusKind
    /\ answer[i] # NoAnswer =>
         outcome[i].result.status = C7_StatusFor(answer[i])

\* the URLs of the callbacks whose result is NOT_FOUND or ERROR, in order
C8_DeadOfLog ==
  LET dead == SelectSeq(cbLog,
                LAMBDA c : c.result.status = "NOT_FOUND"
                             \/ c.result.status = "ERROR")
  IN  [k \in 1..Len(dead) |-> dead[k].result.url]

\* C8: the dead-link list holds exactly the URLs of the results whose status
\* is NOT_FOUND or ERROR, one entry each, in the order of their progress
\* callbacks.
C8_DeadLinksInCallbackOrder ==
  mainPc = "done" =>
    /\ dead_links = C8_DeadOfLog
    /\ Len(cbLog) = Len(results)
    /\ \A k \in 1..Len(cbLog) : cbLog[k].result = results[k]

\* two dead links, listed in the reverse of their input order
C8_DeadLinksOutOfInputOrder ==
  /\ mainPc = "done"
  /\ K >= 2
  /\ urls[1] # urls[2]
  /\ Len(dead_links) = 2
  /\ dead_links[1] = urls[2]
  /\ dead_links[2] = urls[1]

\* C9: a started batch eventually returns (every GET ends, threads are
\* scheduled fairly), and it returns only after every probe has completed.
C9_EventuallyReturns ==
  /\ [](batchPc = "returned" => Finished = Idx)
  /\ (batchPc = "submitting") ~> (batchPc = "returned")

\* the lines that are not blank and hold github.com
C10_Qualifying ==
  SelectSeq(lines,
    LAMBDA l : Contains(l, <<GH>>) /\ \E k \in 1..Len(l) : l[k] # " ")

\* C10: the process ends with code 1 and its own message, with no probe
\* scheduled, when the file argument is missing (usage), when the file cannot
\* be opened for whatever reason (error message), and when no line qualifies;
\* otherwise the batch runs on exactly the qualifying lines.
C10_EarlyExits ==
  /\ (mainPc = "exited" /\ opened \notin {"no", "ok"}) =>
       /\ exitCode = 1
       /\ msg = "file_error"
       /\ \A i \in Idx : started[i] = 0
  /\ (mainPc = "exited" /\ opened = "no") => exitCode = 1 /\ msg = "usage"
  /\ (opened = "ok" /\ C10_Qualifying = <<>>) =>
       mainPc = "exited" /\ exitCode = 1 /\ msg = "no_urls" /\ K = 0
  /\ (opened = "ok" /\ C10_Qualifying # <<>>) =>
       /\ batchPc # "idle"
       /\ K = Len(C10_Qualifying)
       /\ \A k \in Idx : urls[k] = strip(C10_Qualifying[k])

====
